---------------------------- MODULE Spec2Model ----------------------------
(***************************************************************************)
(* Model of the SI fanfic word counter (src/SI-fanfic-word-count.py):      *)
(* index-page enumeration, the per-thread word-count fetch with its        *)
(* rate-limit estimator, the site-specific text extraction and the crawl  *)
(* runs that write the delimited output.                                   *)
(*                                                                         *)
(* A Python str is modelled as a sequence of one-character strings, so    *)
(* that find, replace, strip, slicing and startswith are computed on the  *)
(* characters as the code computes them.  Indices below are Python's      *)
(* (0-based, -1 for "not found").                                          *)
(***************************************************************************)
EXTENDS Integers, Sequences, FiniteSets, TLC

(***************************************************************************)
(* Bounds of the model.                                                    *)
(***************************************************************************)
\* anchors on an index page in the enumeration-only specification
MaxAnchors == 3

\* anchors on an index page of the crawl
MaxCrawlAnchors == 3

\* threads a crawl enumerates
MaxThreads == 2

\* 429 responses served during a crawl
MaxThrottles == 2

\* pieces a page text of the extraction-only specification is made of
MaxPieces == 4

\* throttle signals in the estimator-only specification
MaxSignals == 6

\* threads of the crawl in the estimator-only specification
TotalRequests == 16

\* lines of the input file of the companion filter
MaxLines == 3

\* threads the crawl moves on by, and seconds that pass, between two
\* throttle signals of the estimator-only specification
RequestSteps == {0, 1, 5}

ElapsedSteps == {0, 5}

(***************************************************************************)
(* Python str operations.                                                  *)
(***************************************************************************)
Min(S) == CHOOSE x \in S : \A y \in S : x <= y

Max(S) == CHOOSE x \in S : \A y \in S : x >= y

\* the value None (no str is equal to it: every str is a sequence of
\* one-character strings)
None == <<"None">>

Whitespace == {" ", "\t", "\n", "\r"}

\* s[a:b] for 0 <= a and 0 <= b (a slice past the end stops at the end)
Slice(s, a, b) == SubSeq(s, a + 1, IF b > Len(s) THEN Len(s) ELSE b)

\* s.find(sub, from)
Find(s, sub, from) ==
    LET hits == {k \in from .. (Len(s) - Len(sub)) :
                    SubSeq(s, k + 1, k + Len(sub)) = sub}
    IN  IF hits = {} THEN -1 ELSE Min(hits)

\* sub in s
Contains(s, sub) == Find(s, sub, 0) # -1

\* s.startswith(prefix)
StartsWith(s, prefix) ==
    /\ Len(s) >= Len(prefix)
    /\ SubSeq(s, 1, Len(prefix)) = prefix

\* s.replace(ch, "") for a one-character ch
RemoveChar(s, ch) == SelectSeq(s, LAMBDA c : c # ch)

\* s.strip()
Strip(s) ==
    LET keep == {k \in 1 .. Len(s) : s[k] \notin Whitespace}
    IN  IF keep = {} THEN <<>> ELSE SubSeq(s, Min(keep), Max(keep))

(***************************************************************************)
(* Module-level constants of the program.                                  *)
(***************************************************************************)
urls_to_ignore ==
    { <<"/", "t", "h", "r", "e", "a", "d", "s", "/", "r", "u", "l", "e", "s",
        "-", "t", "e", "r", "m", "s", "-", "o", "f", "-", "s", "e", "r", "v",
        "i", "c", "e">> }

PROBLEM_WORD_COUNT_NOT_FOUND ==
    <<"w", "o", "r", "d", " ", "c", "o", "u", "n", "t", " ", "n", "o", "t",
      " ", "f", "o", "u", "n", "d">>

\* Thread.word_count's default
DefaultWordCount == <<"-", "1">>

Thread(name, url) == [name |-> name, url |-> url, word_count |-> DefaultWordCount]

Http == <<"h", "t", "t", "p">>

SufficientlyVelocity ==
    <<"S", "u", "f", "f", "i", "c", "i", "e", "n", "t", "l", "y", " ", "V",
      "e", "l", "o", "c", "i", "t", "y">>

IntoAProblem ==
    <<"i", "n", "t", "o", " ", "a", " ", "p", "r", "o", "b", "l", "e", "m">>

(***************************************************************************)
(* The sites (BaseSite subclasses SV and QQ) and their extraction rules.   *)
(***************************************************************************)
\* SV.start_text and QQ.start_text
StatisticsParen == <<"S", "t", "a", "t", "i", "s", "t", "i", "c", "s", " ", "(">>

\* SV.end_text
Words == <<"w", "o", "r", "d", "s">>

\* SV.error_text and QQ.error_text
OopsText ==
    <<"O", "o", "p", "s", "!", " ", "W", "e", " ", "r", "a", "n", " ", "i",
      "n", "t", "o", " ", "s", "o", "m", "e", " ", "p", "r", "o", "b", "l",
      "e", "m", "s", ".">>

Sites == {"SV", "QQ"}

start_text(site) == StatisticsParen

error_text(site) == OopsText

\* BaseSite.rate_limit_time, in seconds
rate_limit_time == 5

\* SV.get_word_count_text with the slice taken from the start of the marker
SV_get_word_count_text_KeepsMarker(threadmark_text) ==
    LET start == Find(threadmark_text, StatisticsParen, 0)
    IN  IF start = -1 THEN PROBLEM_WORD_COUNT_NOT_FOUND
        ELSE LET end == Find(threadmark_text, Words, start)
             IN  IF end = -1 THEN PROBLEM_WORD_COUNT_NOT_FOUND
                 ELSE LET wc_text == Slice(threadmark_text, start, end)
                      IN  IF wc_text = <<>> THEN PROBLEM_WORD_COUNT_NOT_FOUND
                          ELSE wc_text

\* SV.get_word_count_text (the warning it prints for a short token does not
\* change the result)
SV_get_word_count_text(threadmark_text) ==
    LET start == Find(threadmark_text, StatisticsParen, 0)
    IN  IF start = -1 THEN PROBLEM_WORD_COUNT_NOT_FOUND
        ELSE LET end == Find(threadmark_text, Words, start)
             IN  IF end = -1 THEN PROBLEM_WORD_COUNT_NOT_FOUND
                 ELSE LET wc_text == Slice(threadmark_text,
                                           start + Len(StatisticsParen), end)
                      IN  IF wc_text = <<>> THEN PROBLEM_WORD_COUNT_NOT_FOUND
                          ELSE wc_text

(***************************************************************************)
(* QQ.threadmark_pattern,                                                  *)
(*   \t*((?:\d+,)?\d+[\s\w]+), Word Count: (\d+\.?\d+[kKmM]?)              *)
(* as re.search matches it: the leftmost start, and at each greedy or     *)
(* optional item the first choice, in the matcher's order of preference,  *)
(* from which the rest of the pattern still matches.  Positions are       *)
(* 0-based; -1 is "no match".                                              *)
(***************************************************************************)
Digits == {"0", "1", "2", "3", "4", "5", "6", "7", "8", "9"}

Letters ==
    {"a", "b", "c", "d", "e", "f", "g", "h", "i", "j", "k", "l", "m", "n",
     "o", "p", "q", "r", "s", "t", "u", "v", "w", "x", "y", "z", "A", "B",
     "C", "D", "E", "F", "G", "H", "I", "J", "K", "L", "M", "N", "O", "P",
     "Q", "R", "S", "T", "U", "V", "W", "X", "Y", "Z"}

\* [\s\w]
SpaceOrWord == Whitespace \cup Digits \cup Letters \cup {"_"}

\* ", Word Count: "
WordCountLabel ==
    <<",", " ", "W", "o", "r", "d", " ", "C", "o", "u", "n", "t", ":", " ">>

\* the character at position q, "" past the end
CharAt(s, q) == IF q < Len(s) THEN s[q + 1] ELSE ""

\* how many consecutive characters of class C start at position q
Run(s, q, C) ==
    IF q >= Len(s) THEN 0
    ELSE Min({n \in 0 .. (Len(s) - q) : n = Len(s) - q \/ s[q + n + 1] \notin C})

\* \.?\d+ can match at q
FractionMatches(s, q) ==
    \/ CharAt(s, q) = "." /\ Run(s, q + 1, Digits) >= 1
    \/ Run(s, q, Digits) >= 1

\* [kKmM]? at q: the position after it
SuffixEnd(s, q) == IF CharAt(s, q) \in {"k", "K", "m", "M"} THEN q + 1 ELSE q

\* \d+[kKmM]? at q: the position after it
DigitsSuffixEnd(s, q) == SuffixEnd(s, q + Run(s, q, Digits))

\* \.?\d+[kKmM]? at q, where it matches: the position after it
FractionEnd(s, q) ==
    DigitsSuffixEnd(s, IF CharAt(s, q) = "." /\ Run(s, q + 1, Digits) >= 1
                       THEN q + 1 ELSE q)

\* the lengths the first \d+ of group 2 can take at q
IntegerLengths(s, q) == {d \in 1 .. Run(s, q, Digits) : FractionMatches(s, q + d)}

NumberEndFrom(s, q, ds) == IF ds = {} THEN -1 ELSE FractionEnd(s, q + Max(ds))

\* group 2, (\d+\.?\d+[kKmM]?), at q: the position after it
NumberEnd(s, q) == NumberEndFrom(s, q, IntegerLengths(s, q))

\* ", Word Count: (\d+\.?\d+[kKmM]?)" matches at q
LabelAndNumberMatch(s, q) ==
    /\ q + Len(WordCountLabel) <= Len(s)
    /\ SubSeq(s, q + 1, q + Len(WordCountLabel)) = WordCountLabel
    /\ NumberEnd(s, q + Len(WordCountLabel)) # -1

\* the lengths [\s\w]+ can take at q
WordLengths(s, q) ==
    {c \in 1 .. Run(s, q, SpaceOrWord) : LabelAndNumberMatch(s, q + c)}

\* the lengths the \d+ before [\s\w]+ can take at q
CountLengths(s, q) == {b \in 1 .. Run(s, q, Digits) : WordLengths(s, q + b) # {}}

WordEnd(s, q) == q + Max(WordLengths(s, q))

CountEndFrom(s, q, bs) == IF bs = {} THEN -1 ELSE WordEnd(s, q + Max(bs))

\* \d+[\s\w]+ at q, followed by the label and the number: the position
\* after [\s\w]+
CountEnd(s, q) == CountEndFrom(s, q, CountLengths(s, q))

\* the lengths the \d+ of (?:\d+,)? can take at q
ThousandsLengths(s, q) ==
    {a \in 1 .. Run(s, q, Digits) :
        CharAt(s, q + a) = "," /\ CountEnd(s, q + a + 1) # -1}

Group1EndFrom(s, q, as) == CountEnd(s, IF as # {} THEN q + Max(as) + 1 ELSE q)

\* group 1, ((?:\d+,)?\d+[\s\w]+), at q: the position after it
Group1End(s, q) == Group1EndFrom(s, q, ThousandsLengths(s, q))

\* the numbers of tabs \t* can take at p
TabLengths(s, p) == {k \in 0 .. Run(s, p, {"\t"}) : Group1End(s, p + k) # -1}

\* re.search's None
NoMatch == [g1s |-> -1, g1e |-> -1, g2s |-> -1, g2e |-> -1]

\* the spans of the two groups, group 1 being [g1s, g1e)
Groups(s, g1s, g1e) ==
    [g1s |-> g1s, g1e |-> g1e, g2s |-> g1e + Len(WordCountLabel),
     g2e |-> NumberEnd(s, g1e + Len(WordCountLabel))]

GroupsFrom(s, g1s) == Groups(s, g1s, Group1End(s, g1s))

MatchAtFrom(s, p, ks) == IF ks = {} THEN NoMatch ELSE GroupsFrom(s, p + Max(ks))

\* the whole pattern at p: the spans of its two groups, or NoMatch
MatchAt(s, p) == MatchAtFrom(s, p, TabLengths(s, p))

SearchFrom(s, ps) == IF ps = {} THEN NoMatch ELSE MatchAt(s, Min(ps))

\* re.search(threadmark_pattern, s)
SearchThreadmarkPattern(s) ==
    SearchFrom(s, {p \in 0 .. Len(s) : MatchAt(s, p) # NoMatch})

\* f"{match.group(1)}, {match.group(2)}", or the sentinel without a match
MatchText(cur_text, match) ==
    IF match = NoMatch THEN PROBLEM_WORD_COUNT_NOT_FOUND
    ELSE Slice(cur_text, match.g1s, match.g1e) \o <<",", " ">>
            \o Slice(cur_text, match.g2s, match.g2e)

SearchText(cur_text) == MatchText(cur_text, SearchThreadmarkPattern(cur_text))

\* QQ.get_word_count_text
QQ_get_word_count_text(threadmark_text) ==
    LET start == Find(threadmark_text, StatisticsParen, 0)
    IN  IF start = -1 THEN PROBLEM_WORD_COUNT_NOT_FOUND
        ELSE SearchText(Slice(threadmark_text, start + Len(StatisticsParen),
                              Len(threadmark_text)))

\* self.site.get_word_count_text
get_word_count_text(site, threadmark_text) ==
    IF site = "SV" THEN SV_get_word_count_text(threadmark_text)
    ELSE QQ_get_word_count_text(threadmark_text)

(***************************************************************************)
(* Scraper.fmt_sec and Scraper.hit_rate_limit.  time.time() is read in     *)
(* whole seconds; the rate is kept as the fraction requests / seconds.     *)
(***************************************************************************)
DigitChar(d) == <<"0", "1", "2", "3", "4", "5", "6", "7", "8", "9">>[d + 1]

\* str(n) for n >= 0
RECURSIVE Decimal(_)
Decimal(n) == IF n < 10 THEN <<DigitChar(n)>>
              ELSE Append(Decimal(n \div 10), DigitChar(n % 10))

\* f"{n:02d}"
Format02d(n) ==
    IF n < 0 THEN <<"-">> \o Decimal(-n)
    ELSE IF n < 10 THEN <<"0">> \o Decimal(n)
    ELSE Decimal(n)

\* fmt_sec with the hours not carried out of the minutes
fmt_sec_NoHours(sec) ==
    LET m == sec \div 60
        s == sec % 60
    IN  Format02d(0) \o <<":">> \o Format02d(m) \o <<":">> \o Format02d(s)

\* divmod(sec, 60) twice (floor division, as \div and % are)
fmt_sec(sec) ==
    LET m0 == sec \div 60
        s  == sec % 60
        h  == m0 \div 60
        m  == m0 % 60
    IN  Format02d(h) \o <<":">> \o Format02d(m) \o <<":">> \o Format02d(s)

\* int(n / d) for d # 0: truncation toward zero
TruncDiv(n, d) ==
    LET an == IF n < 0 THEN -n ELSE n
        ad == IF d < 0 THEN -d ELSE d
        q  == an \div ad
    IN  IF (n < 0) = (d < 0) THEN q ELSE -q

RateLimitPoint(time, requests) == [time |-> time, requests |-> requests]

\* nothing printed by hit_rate_limit
NoReport == [printed |-> FALSE, rate_num |-> 0, rate_den |-> 0, eta |-> 0, text |-> <<>>]

\* hit_rate_limit that never evicts the oldest sample
hit_rate_limit_NoEviction(rate_limited, rate_calc, time, p_cur, p_max) ==
    IF ~ rate_limited
    THEN [rate_limited |-> TRUE, rate_calc |-> <<RateLimitPoint(time, p_cur)>>,
          raised |-> FALSE, report |-> NoReport]
    ELSE LET calc   == Append(rate_calc, RateLimitPoint(time, p_cur))
             d_req  == calc[Len(calc)].requests - calc[1].requests
             d_time == calc[Len(calc)].time - calc[1].time
         IN  IF d_time = 0 \/ d_req = 0
             THEN [rate_limited |-> TRUE, rate_calc |-> calc,
                   raised |-> TRUE, report |-> NoReport]
             ELSE LET eta == TruncDiv((p_max - p_cur) * d_time, d_req)
                  IN  [rate_limited |-> TRUE, rate_calc |-> calc, raised |-> FALSE,
                       report |-> [printed |-> TRUE, rate_num |-> d_req,
                                   rate_den |-> d_time, eta |-> eta,
                                   text |-> fmt_sec(eta)]]

\* hit_rate_limit clearing the flag once it has reported, so that the next
\* throttle starts a new window
hit_rate_limit_ClearsFlag(rate_limited, rate_calc, time, p_cur, p_max) ==
    IF ~ rate_limited
    THEN [rate_limited |-> TRUE, rate_calc |-> <<RateLimitPoint(time, p_cur)>>,
          raised |-> FALSE, report |-> NoReport]
    ELSE LET appended == Append(rate_calc, RateLimitPoint(time, p_cur))
             calc     == IF Len(appended) > 5 THEN Tail(appended) ELSE appended
             d_req    == calc[Len(calc)].requests - calc[1].requests
             d_time   == calc[Len(calc)].time - calc[1].time
         IN  IF d_time = 0 \/ d_req = 0
             THEN [rate_limited |-> TRUE, rate_calc |-> calc,
                   raised |-> TRUE, report |-> NoReport]
             ELSE LET eta == TruncDiv((p_max - p_cur) * d_time, d_req)
                  IN  [rate_limited |-> FALSE, rate_calc |-> calc, raised |-> FALSE,
                       report |-> [printed |-> TRUE, rate_num |-> d_req,
                                   rate_den |-> d_time, eta |-> eta,
                                   text |-> fmt_sec(eta)]]

\* hit_rate_limit(p_cur, p_max) called at clock reading time: the new
\* estimator state, whether ZeroDivisionError was raised (by the rate's
\* division when the window spans no time, by the ETA's division when the
\* rate is 0), and what was printed
hit_rate_limit(rate_limited, rate_calc, time, p_cur, p_max) ==
    IF ~ rate_limited
    THEN [rate_limited |-> TRUE, rate_calc |-> <<RateLimitPoint(time, p_cur)>>,
          raised |-> FALSE, report |-> NoReport]
    ELSE LET appended == Append(rate_calc, RateLimitPoint(time, p_cur))
             calc     == IF Len(appended) > 5 THEN Tail(appended) ELSE appended
             d_req    == calc[Len(calc)].requests - calc[1].requests
             d_time   == calc[Len(calc)].time - calc[1].time
         IN  IF d_time = 0 \/ d_req = 0
             THEN [rate_limited |-> TRUE, rate_calc |-> calc,
                   raised |-> TRUE, report |-> NoReport]
             ELSE LET eta == TruncDiv((p_max - p_cur) * d_time, d_req)
                  IN  [rate_limited |-> TRUE, rate_calc |-> calc, raised |-> FALSE,
                       report |-> [printed |-> TRUE, rate_num |-> d_req,
                                   rate_den |-> d_time, eta |-> eta,
                                   text |-> fmt_sec(eta)]]

(***************************************************************************)
(* Scraper.get_word_count: what one response other than 404 and 429 leads  *)
(* to.  content is the page's text with its line breaks.                   *)
(***************************************************************************)
\* get_word_count that does not look for the site's error text
handle_page_NoErrorCheck(site, content) ==
    [raised |-> FALSE,
     value  |-> get_word_count_text(site, RemoveChar(content, "\n"))]

handle_page(site, content) ==
    LET text == RemoveChar(content, "\n")
    IN  IF Contains(text, error_text(site))
        THEN [raised |-> TRUE, value |-> <<>>]
        ELSE [raised |-> FALSE, value |-> get_word_count_text(site, text)]

(***************************************************************************)
(* Scraper._is_link_useful                                                 *)
(***************************************************************************)
\* _is_link_useful without the tests of the anchor's text
is_link_useful_NoTextTest(link_raw, link_text_raw) ==
    IF link_raw = None \/ link_raw = <<>>
    THEN FALSE
    ELSE LET link == Strip(link_raw)
         IN  ~ ( \/ ~ StartsWith(link, Http)
                 \/ link \in urls_to_ignore )

is_link_useful(link_raw, link_text_raw) ==
    IF link_raw = None \/ link_raw = <<>>
       \/ link_text_raw = None \/ link_text_raw = <<>>
    THEN FALSE
    ELSE LET link      == Strip(link_raw)
             link_text == Strip(link_text_raw)
         IN  ~ ( \/ ~ StartsWith(link, Http)
                 \/ link \in urls_to_ignore
                 \/ link_text = <<>>
                 \/ Contains(link_text, SufficientlyVelocity)
                 \/ Contains(link_text, IntoAProblem) )

(***************************************************************************)
(* Scraper.parse_index_page.  links is the anchor list of the fetched     *)
(* page, each anchor [text, href] (href is None for an anchor without the *)
(* attribute).  ParseLoop is the for loop: it returns the positions in    *)
(* links of the anchors it appends, in the order it appends them, and     *)
(* parse_index_page builds the Thread of each.                             *)
(***************************************************************************)
\* ParseLoop without the continue after the start marker: the start anchor
\* itself falls through to the filter and is collected
RECURSIVE ParseLoopKeepsStart(_, _, _, _, _, _)
ParseLoopKeepsStart(links, k, start, collected, start_link, end_link) ==
    IF k > Len(links) THEN collected
    ELSE LET link      == links[k]
             link_text == RemoveChar(link.text, "|")
             started   == start \/ link.text = start_link
         IN  IF ~ started \/ ~ is_link_useful(link.href, link_text)
             THEN ParseLoopKeepsStart(links, k + 1, started, collected,
                                      start_link, end_link)
             ELSE IF link_text = end_link
             THEN Append(collected, k)
             ELSE ParseLoopKeepsStart(links, k + 1, started, Append(collected, k),
                                      start_link, end_link)

RECURSIVE ParseLoop(_, _, _, _, _, _)
ParseLoop(links, k, start, collected, start_link, end_link) ==
    IF k > Len(links) THEN collected
    ELSE LET link      == links[k]
             link_text == RemoveChar(link.text, "|")
         IN  IF link.text = start_link
             THEN ParseLoop(links, k + 1, TRUE, collected, start_link, end_link)
             ELSE IF ~ start \/ ~ is_link_useful(link.href, link_text)
             THEN ParseLoop(links, k + 1, start, collected, start_link, end_link)
             ELSE IF link_text = end_link
             THEN Append(collected, k)
             ELSE ParseLoop(links, k + 1, start, Append(collected, k),
                            start_link, end_link)

\* the Thread appended for the anchor at position k
ThreadOfAnchor(links, k) == Thread(RemoveChar(links[k].text, "|"), links[k].href)

\* the optional argument prev_threads: left at its default None, or a list
NoThreads == [is_none |-> TRUE, list |-> <<>>]

Given(list) == [is_none |-> FALSE, list |-> list]

\* parse_index_page putting the threads of this page before the given ones
parse_index_page_Prepends(links, start_link, end_link, prev_threads) ==
    LET collected == ParseLoop(links, 1, FALSE, <<>>, start_link, end_link)
        threads   == [j \in 1 .. Len(collected) |-> ThreadOfAnchor(links, collected[j])]
    IN  IF ~ prev_threads.is_none THEN threads \o prev_threads.list ELSE threads

\* "prev_threads + threads" builds a new list: the list given is not changed
parse_index_page(links, start_link, end_link, prev_threads) ==
    LET collected == ParseLoop(links, 1, FALSE, <<>>, start_link, end_link)
        threads   == [j \in 1 .. Len(collected) |-> ThreadOfAnchor(links, collected[j])]
    IN  IF ~ prev_threads.is_none THEN prev_threads.list \o threads ELSE threads

(***************************************************************************)
(* Inputs of the enumeration: marker names and anchors.                    *)
(***************************************************************************)
StartName == <<"S", "t", "a", "r", "t">>

EndName == <<"E", "n", "d">>

Anchor(text, href) == [text |-> text, href |-> href]

\* anchor texts: the markers, a text that equals the end marker once its
\* '|' is removed, an ordinary thread name, and a text that is empty once
\* its '|' is removed
IndexTexts ==
    { StartName, EndName, <<"E", "n", "|", "d">>, <<"K", "e", "e", "p">>, <<"|">> }

\* "/threads/rules-terms-of-service"
RulesPath ==
    <<"/", "t", "h", "r", "e", "a", "d", "s", "/", "r", "u", "l", "e", "s", "-">>
        \o <<"t", "e", "r", "m", "s", "-", "o", "f", "-", "s", "e", "r", "v", "i", "c", "e">>

\* hrefs: an absolute URL, a relative one, a missing attribute, and the
\* rules page by its path and by its absolute URL
IndexHrefs ==
    { <<"h", "t", "t", "p", ":", "/", "/", "b">>, <<"x">>, None,
      RulesPath, <<"h", "t", "t", "p", ":", "/", "/", "b">> \o RulesPath }

IndexAnchors == { Anchor(t, h) : t \in IndexTexts, h \in IndexHrefs }

\* the anchor sequence of the end-to-end scenario
ScenarioAnchors ==
    << Anchor(<<"s", "k", "i", "p", "-", "m", "e">>, <<"x">>),
       Anchor(StartName, <<"h", "t", "t", "p", ":", "/", "/", "a">>),
       Anchor(<<"K", "e", "e", "p">>, <<"h", "t", "t", "p", ":", "/", "/", "b">>),
       Anchor(EndName, <<"h", "t", "t", "p", ":", "/", "/", "c">>),
       Anchor(<<"i", "g", "n", "o", "r", "e", "d">>,
              <<"h", "t", "t", "p", ":", "/", "/", "d">>) >>

SeqsUpTo(S, n) == UNION { [1 .. m -> S] : m \in 0 .. n }

IndexPages == SeqsUpTo(IndexAnchors, MaxAnchors) \cup { ScenarioAnchors }

(***************************************************************************)
(* Inputs of the crawl: the index pages, and the statistics pages the      *)
(* server answers with.                                                    *)
(***************************************************************************)
HttpB == <<"h", "t", "t", "p", ":", "/", "/", "b">>

\* a thread title holding the delimiter and a line break
BrokenTitle == <<"K", "|", "\n", "p">>

CrawlAnchors ==
    { Anchor(StartName, HttpB), Anchor(EndName, HttpB), Anchor(BrokenTitle, HttpB) }

CrawlIndexPages == SeqsUpTo(CrawlAnchors, MaxCrawlAnchors)

\* "Statistics (7 threadmarks,\n Word Count: 4.9k words)"
StatsPage ==
    StatisticsParen \o <<"7", " ", "t", "h", "r", "e", "a", "d", "m", "a", "r", "k", "s">>
        \o <<",", "\n", " ", "W", "o", "r", "d", " ", "C", "o", "u", "n", "t", ":", " ">>
        \o <<"4", ".", "9", "k", " ">> \o Words \o <<")">>

\* "Statistics\t7 threadmarks, Word Count: 4.9k": no start marker
NoMarkerPage ==
    <<"S", "t", "a", "t", "i", "s", "t", "i", "c", "s", "\t">>
        \o <<"7", " ", "t", "h", "r", "e", "a", "d", "m", "a", "r", "k", "s">>
        \o WordCountLabel \o <<"4", ".", "9", "k">>

\* "Statistics (1k words) Oops! We ran\n into some problems."
ErrorPage ==
    StatisticsParen \o <<"1", "k", " ">> \o Words \o <<")", " ">>
        \o SubSeq(OopsText, 1, 12) \o <<"\n">> \o SubSeq(OopsText, 13, Len(OopsText))

StatsPages == { StatsPage, NoMarkerPage, ErrorPage }

\* status codes other than 404 and 429
OtherStatuses == { 200, 500 }

NoError == [type |-> "none", code |-> 0]

(***************************************************************************)
(* Inputs of the extraction-only specification: page texts put together   *)
(* from the markers and from pieces of tokens, and the docstring's example *)
(* of a Questionable Questing page.                                        *)
(***************************************************************************)
ThreadmarksLabel ==
    <<" ", "t", "h", "r", "e", "a", "d", "m", "a", "r", "k", "s">> \o WordCountLabel

TextPieces ==
    { StatisticsParen, Words, <<" ">>, <<"1", "2">>, <<"4", ".", "9", "k">>,
      <<"\t">>, ThreadmarksLabel }

RECURSIVE Concat(_)
Concat(pieces) == IF pieces = <<>> THEN <<>> ELSE Head(pieces) \o Concat(Tail(pieces))

\* "Statistics\t\t\t7 threadmarks, Word Count: 4.9k9adam4 (7 threadmarks)"
QQExampleText ==
    <<"S", "t", "a", "t", "i", "s", "t", "i", "c", "s", "\t", "\t", "\t", "7">>
        \o ThreadmarksLabel
        \o <<"4", ".", "9", "k", "9", "a", "d", "a", "m", "4", " ", "(", "7">>
        \o <<" ", "t", "h", "r", "e", "a", "d", "m", "a", "r", "k", "s", ")">>

ExtractTexts ==
    { Concat(ps) : ps \in SeqsUpTo(TextPieces, MaxPieces) } \cup { QQExampleText }

(***************************************************************************)
(* The companion filter (src/SI-fanfic-output-cleanup.py).                 *)
(***************************************************************************)
\* s holds sub at the 0-based position q
HasAt(s, q, sub) ==
    /\ q + Len(sub) <= Len(s)
    /\ SubSeq(s, q + 1, q + Len(sub)) = sub

PipeHttp == <<"|", "h", "t", "t", "p">>

ColonSlashes == <<":", "/", "/">>

\* one more character other than a line break at the 0-based position q
AnyCharAt(s, q) == q < Len(s) /\ s[q + 1] # "\n"

\* the rest of the pattern once the first field has taken k characters
UrlAfterField(line, k) ==
    /\ HasAt(line, k, PipeHttp)
    /\ \/ /\ HasAt(line, k + 5, ColonSlashes)
          /\ AnyCharAt(line, k + 8)
       \/ /\ HasAt(line, k + 5, <<"s">> \o ColonSlashes)
          /\ AnyCharAt(line, k + 9)

\* pattern.match(line) for r'^.+?\|https?://.+?': a first field of k >= 1
\* characters other than a line break, then "|http", an optional "s",
\* "://" and one more such character
pattern_match(line) ==
    \E k \in 1 .. Len(line) :
        /\ \A j \in 1 .. k : line[j] # "\n"
        /\ UrlAfterField(line, k)

\* cleanup_output: what is written for the lines read
cleanup_output(lines) ==
    LET kept == SelectSeq(lines, pattern_match)
    IN  [k \in 1 .. Len(kept) |-> Strip(kept[k]) \o <<"\n">>]

\* verify_input_args without the test of the output path
verify_input_args_NoOutputTest(input_kind, output_kind, force_set) ==
    input_kind = "file"

\* verify_input_args: os.path.isfile of both paths and the force flag
verify_input_args(input_kind, output_kind, force_set) ==
    IF input_kind # "file" THEN FALSE
    ELSE IF output_kind = "file" /\ ~ force_set THEN FALSE
    ELSE TRUE

\* a path that names nothing, a directory, a regular file of the lines ls
MissingPath == [kind |-> "missing", lines |-> <<>>]

DirectoryPath == [kind |-> "dir", lines |-> <<>>]

FileOf(ls) == [kind |-> "file", lines |-> ls]

ProblemsPhrase ==
    <<"i", "n", "t", "o", " ", "s", "o", "m", "e", " ", "p", "r", "o", "b", "l", "e", "m", "s">>

\* "Title|https://example.com/threads/x.1/|8 threadmarks, 24k\n"
TitleLine ==
    <<"T", "i", "t", "l", "e", "|", "h", "t", "t", "p", "s", ":", "/", "/">>
        \o <<"e", "x", "a", "m", "p", "l", "e", ".", "c", "o", "m", "/">>
        \o <<"t", "h", "r", "e", "a", "d", "s", "/", "x", ".", "1", "/", "|">>
        \o <<"8", " ", "t", "h", "r", "e", "a", "d", "m", "a", "r", "k", "s", ",", " ">>
        \o <<"2", "4", "k", "\n">>

\* the lines an input file is made of
CleanupLines ==
    { TitleLine,
      <<"\n">>,
      <<" ", "\n">>,
      ProblemsPhrase \o <<"\n">>,
      ProblemsPhrase \o <<"|", "h", "t", "t", "p", ":", "/", "/", "x", "\n">>,
      <<" ", "T", "|", "h", "t", "t", "p", ":", "/", "/", "x", " ", "\n">>,
      <<"T", "|", "h", "t", "t", "p", ":", "/", "/", "\n">>,
      <<"|", "h", "t", "t", "p", ":", "/", "/", "x", "\n">>,
      <<"T", "|", "f", "t", "p", ":", "/", "/", "x", "\n">> }

\* what the output path holds before the run, when it is a file
OldOutput == FileOf(<< <<"o", "l", "d", "\n">> >>)

VARIABLES
    pc,               \* position of the run
    site,             \* the Scraper's site: "SV" or "QQ"
    run,              \* "A" (run_scraper_sv) or "B" (run_scraper_qq)
    links,            \* parse_index_page: the anchors of the page last fetched
    threads,          \* the Thread list
    enumerated,       \* the Thread list as the enumeration returned it
    i,                \* retrieve_word_counts: the loop's index
    rate_limited,     \* Scraper.rate_limited
    rate_calc,        \* Scraper.rate_calc
    now,              \* the clock, in seconds
    throttles,        \* how many 429 responses were served
    progress,         \* the (p_cur, p_max) last passed to hit_rate_limit
    report,           \* what hit_rate_limit last printed
    outcome,          \* per thread: "pending", "returned" or the exception raised
    served,           \* per thread: the page of its response, None if none
    assigned,         \* per thread: how often word_count was assigned
    last_error,       \* the exception last raised
    output,           \* the lines written to the output file
    escaped,          \* an exception escaped retrieve_word_counts
    threadmark_text,  \* get_word_count_text: its argument
    wc_text,          \* get_word_count_text: its result
    force,            \* the companion filter's args.force
    input_file,       \* what args.input_file names
    output_file,      \* what args.output_file names
    output_before,    \* what args.output_file named when main started
    ran,              \* main called cleanup_output
    wrote,            \* cleanup_output wrote the output path
    recorded,         \* every sample hit_rate_limit recorded, in order
    carried           \* the list passed as prev_threads, as the call left it

vars == <<pc, site, run, links, threads, enumerated, i, rate_limited, rate_calc,
          now, throttles, progress, report, outcome, served, assigned,
          last_error, output, escaped, threadmark_text, wc_text, force,
          input_file, output_file, output_before, ran, wrote, recorded,
          carried>>

estimatorVars ==
    <<rate_limited, rate_calc, now, throttles, progress, report, recorded>>

historyVars == <<outcome, served, assigned, last_error>>

extractVars == <<threadmark_text, wc_text>>

cleanupVars == <<force, input_file, output_file, output_before, ran, wrote>>

\* the companion filter is not part of the run
NoCleanup ==
    /\ force = FALSE
    /\ input_file = MissingPath
    /\ output_file = MissingPath
    /\ output_before = MissingPath
    /\ ran = FALSE
    /\ wrote = FALSE

\* Scraper.__init__, and nothing fetched, raised or written yet
Fresh_Scraper ==
    /\ links = <<>>
    /\ threads = <<>>
    /\ enumerated = <<>>
    /\ i = 0
    /\ rate_limited = FALSE
    /\ rate_calc = <<>>
    /\ recorded = <<>>
    /\ carried = NoThreads
    /\ now = 0
    /\ throttles = 0
    /\ progress = [p_cur |-> -1, p_max |-> -1]
    /\ report = NoReport
    /\ outcome = <<>>
    /\ served = <<>>
    /\ assigned = <<>>
    /\ last_error = NoError
    /\ output = <<>>
    /\ escaped = FALSE
    /\ threadmark_text = <<>>
    /\ wc_text = <<>>

Fresh ==
    /\ Fresh_Scraper
    /\ NoCleanup

(***************************************************************************)
(* Enumeration-only specification: one call of parse_index_page on an     *)
(* arbitrary index page.                                                   *)
(***************************************************************************)
IndexInit ==
    /\ pc = "index"
    /\ site = "SV"
    /\ run = "B"
    /\ \E page \in IndexPages :
          /\ links = page
          /\ threads = <<>>
          /\ enumerated = <<>>
          /\ i = 0
          /\ rate_limited = FALSE
          /\ rate_calc = <<>>
          /\ recorded = <<>>
          /\ carried = NoThreads
          /\ now = 0
          /\ throttles = 0
          /\ progress = [p_cur |-> -1, p_max |-> -1]
          /\ report = NoReport
          /\ outcome = <<>>
          /\ served = <<>>
          /\ assigned = <<>>
          /\ last_error = NoError
          /\ output = <<>>
          /\ escaped = FALSE
          /\ threadmark_text = <<>>
          /\ wc_text = <<>>
          /\ NoCleanup

EnumerateIndex ==
    /\ pc = "index"
    /\ threads' = parse_index_page(links, StartName, EndName, NoThreads)
    /\ pc' = "enumerated"
    /\ UNCHANGED <<site, run, links, enumerated, i, estimatorVars, historyVars,
                   output, escaped, extractVars,
                   cleanupVars, carried>>

SpecIndex == IndexInit /\ [][EnumerateIndex]_vars

(***************************************************************************)
(* Extraction-only specification: get_word_count_text of either site on   *)
(* an arbitrary page text.                                                 *)
(***************************************************************************)
ExtractInit ==
    /\ pc = "extract"
    /\ site \in Sites
    /\ run = "B"
    /\ threadmark_text \in ExtractTexts
    /\ wc_text = <<>>
    /\ links = <<>>
    /\ threads = <<>>
    /\ enumerated = <<>>
    /\ i = 0
    /\ rate_limited = FALSE
    /\ rate_calc = <<>>
    /\ recorded = <<>>
    /\ carried = NoThreads
    /\ now = 0
    /\ throttles = 0
    /\ progress = [p_cur |-> -1, p_max |-> -1]
    /\ report = NoReport
    /\ outcome = <<>>
    /\ served = <<>>
    /\ assigned = <<>>
    /\ last_error = NoError
    /\ output = <<>>
    /\ escaped = FALSE
    /\ NoCleanup

ExtractWordCount ==
    /\ pc = "extract"
    /\ wc_text' = get_word_count_text(site, threadmark_text)
    /\ pc' = "extracted"
    /\ UNCHANGED <<site, run, links, threads, enumerated, i, estimatorVars,
                   historyVars, output, escaped, threadmark_text,
                   cleanupVars, carried>>

SpecExtract == ExtractInit /\ [][ExtractWordCount]_vars

(***************************************************************************)
(* Estimator-only specification: the throttle signals of one crawl of     *)
(* TotalRequests threads.  Between two signals the crawl moves on by some *)
(* threads and some seconds pass; after a signal that raised nothing the  *)
(* caller sleeps rate_limit_time, and after one that raised the thread is *)
(* given up, so the next signal comes from a later thread.                 *)
(***************************************************************************)
RateInit ==
    /\ pc = "estimator"
    /\ site = "SV"
    /\ run = "B"
    /\ links = <<>>
    /\ threads = <<>>
    /\ enumerated = <<>>
    /\ i = 0
    /\ rate_limited = FALSE
    /\ rate_calc = <<>>
    /\ recorded = <<>>
    /\ carried = NoThreads
    /\ now = 0
    /\ throttles = 0
    /\ progress = [p_cur |-> -1, p_max |-> TotalRequests]
    /\ report = NoReport
    /\ outcome = <<>>
    /\ served = <<>>
    /\ assigned = <<>>
    /\ last_error = NoError
    /\ output = <<>>
    /\ escaped = FALSE
    /\ threadmark_text = <<>>
    /\ wc_text = <<>>
    /\ NoCleanup

\* status_code_429 for thread number i + 1 + ahead, elapsed seconds after the
\* last one returned
ThrottleSignal ==
    /\ pc = "estimator"
    /\ throttles < MaxSignals
    /\ \E ahead \in RequestSteps, elapsed \in ElapsedSteps :
          /\ last_error.type = "ZeroDivisionError" => ahead >= 1
          /\ i + ahead < TotalRequests
          /\ LET r == hit_rate_limit(rate_limited, rate_calc, now + elapsed,
                                     i + ahead + 1, TotalRequests)
             IN  /\ i' = i + ahead
                 /\ rate_limited' = r.rate_limited
                 /\ rate_calc' = r.rate_calc
                 /\ recorded' = Append(recorded,
                                       RateLimitPoint(now + elapsed, i + ahead + 1))
                 /\ report' = r.report
                 /\ progress' = [p_cur |-> i + ahead + 1, p_max |-> TotalRequests]
                 /\ last_error' = IF r.raised
                                  THEN [type |-> "ZeroDivisionError", code |-> 429]
                                  ELSE NoError
                 /\ now' = IF r.raised THEN now + elapsed
                           ELSE now + elapsed + rate_limit_time
    /\ throttles' = throttles + 1
    /\ UNCHANGED <<pc, site, run, links, threads, enumerated, outcome, served,
                   assigned, output, escaped, extractVars,
                   cleanupVars, carried>>

SpecRate == RateInit /\ [][ThrottleSignal]_vars

(***************************************************************************)
(* The crawl: run_scraper_sv (run A, two index pages) and run_scraper_qq  *)
(* (run B, one), each enumerating, retrieving the word counts and writing *)
(* the output lines.  Both runs of the source build their Scraper with an *)
(* SV site; the Scraper takes any site, and the crawl is modelled for     *)
(* either.                                                                 *)
(***************************************************************************)
Init ==
    /\ pc = "start"
    /\ site \in Sites
    /\ run \in {"A", "B"}
    /\ Fresh

Pending(n) == [k \in 1 .. n |-> "pending"]

\* the enumeration is over: retrieve_word_counts gets the list
Enumerated(list) ==
    /\ threads' = list
    /\ enumerated' = list
    /\ outcome' = Pending(Len(list))
    /\ served' = [k \in 1 .. Len(list) |-> None]
    /\ assigned' = [k \in 1 .. Len(list) |-> 0]

\* the first parse_index_page of a run
ParseFirstPage ==
    /\ pc = "start"
    /\ \E page \in CrawlIndexPages :
          LET list == parse_index_page(page, StartName, EndName, NoThreads)
          IN  IF run = "A"
              THEN /\ threads' = list
                   /\ pc' = "page2"
                   /\ UNCHANGED <<enumerated, outcome, served, assigned>>
              ELSE /\ Enumerated(list)
                   /\ pc' = "retrieve"
    /\ UNCHANGED <<site, run, links, i, estimatorVars, last_error, output,
                   escaped, extractVars,
                   cleanupVars, carried>>

\* run A's second parse_index_page, given the threads of the first
ParseSecondPage ==
    /\ pc = "page2"
    /\ \E page \in CrawlIndexPages :
          LET list == parse_index_page(page, StartName, EndName, Given(threads))
          IN  /\ Len(list) <= MaxThreads
              /\ Enumerated(list)
    /\ carried' = Given(threads)
    /\ pc' = "retrieve"
    /\ UNCHANGED <<site, run, links, i, estimatorVars, last_error, output,
                   escaped, extractVars,
                   cleanupVars>>

\* the except branch leaving the loop instead of going on to the next thread
Failed_Breaks(type, code) ==
    /\ outcome' = [outcome EXCEPT ![i + 1] = type]
    /\ last_error' = [type |-> type, code |-> code]
    /\ i' = Len(threads)

\* retrieve_word_counts: the except branch for thread i + 1
Failed(type, code) ==
    /\ outcome' = [outcome EXCEPT ![i + 1] = type]
    /\ last_error' = [type |-> type, code |-> code]
    /\ i' = i + 1

\* the statistics page of thread i + 1 answers 404
Respond404 ==
    /\ pc = "retrieve"
    /\ i < Len(threads)
    /\ Failed("Exception404", 404)
    /\ UNCHANGED <<pc, site, run, links, threads, enumerated, estimatorVars,
                   served, assigned, output, escaped, extractVars,
                   cleanupVars, carried>>

\* it answers 429: status_code_429, then the same request again
Respond429 ==
    /\ pc = "retrieve"
    /\ i < Len(threads)
    /\ throttles < MaxThrottles
    /\ throttles' = throttles + 1
    /\ progress' = [p_cur |-> i + 1, p_max |-> Len(threads)]
    /\ LET r == hit_rate_limit(rate_limited, rate_calc, now, i + 1, Len(threads))
       IN  /\ rate_limited' = r.rate_limited
           /\ rate_calc' = r.rate_calc
           /\ recorded' = Append(recorded, RateLimitPoint(now, i + 1))
           /\ report' = r.report
           /\ IF r.raised
              THEN /\ Failed("ZeroDivisionError", 429)
                   /\ now' = now
              ELSE /\ now' = now + rate_limit_time
                   /\ UNCHANGED <<i, outcome, last_error>>
    /\ UNCHANGED <<pc, site, run, links, threads, enumerated, served, assigned,
                   output, escaped, extractVars,
                   cleanupVars, carried>>

\* the loop body treating the not-found sentinel as one more failure
Retrieved_SkipsSentinel(value) ==
    /\ threads' = IF value = PROBLEM_WORD_COUNT_NOT_FOUND THEN threads
                  ELSE [threads EXCEPT
                           ![i + 1].word_count = RemoveChar(value, "\n"),
                           ![i + 1].name = RemoveChar(threads[i + 1].name, "\n")]
    /\ outcome' = [outcome EXCEPT ![i + 1] = "returned"]
    /\ assigned' = [assigned EXCEPT ![i + 1] = assigned[i + 1] + 1]
    /\ i' = i + 1
    /\ UNCHANGED last_error

\* retrieve_word_counts' body for thread i + 1 once get_word_count returned
\* value
Retrieved(value) ==
    /\ threads' = [threads EXCEPT
                      ![i + 1].word_count = RemoveChar(value, "\n"),
                      ![i + 1].name = RemoveChar(threads[i + 1].name, "\n")]
    /\ outcome' = [outcome EXCEPT ![i + 1] = "returned"]
    /\ assigned' = [assigned EXCEPT ![i + 1] = assigned[i + 1] + 1]
    /\ i' = i + 1
    /\ UNCHANGED last_error

\* it answers with another status and a page
RespondPage ==
    /\ pc = "retrieve"
    /\ i < Len(threads)
    /\ \E status \in OtherStatuses, content \in StatsPages :
          /\ served' = [served EXCEPT ![i + 1] = content]
          /\ LET r == handle_page(site, content)
             IN  IF r.raised
                 THEN /\ Failed("Exception", status)
                      /\ UNCHANGED <<threads, assigned>>
                 ELSE Retrieved(r.value)
    /\ UNCHANGED <<pc, site, run, links, enumerated, estimatorVars, output,
                   escaped, extractVars,
                   cleanupVars, carried>>

\* a print of the loop raises (the one of the except branch or the one that
\* ends an iteration): the exception leaves retrieve_word_counts and the run
\* catches it
TopLevelFailure ==
    /\ pc = "retrieve"
    /\ i >= 1
    /\ escaped' = TRUE
    /\ pc' = "failed"
    /\ UNCHANGED <<site, run, links, threads, enumerated, i, estimatorVars,
                   historyVars, output, extractVars,
                   cleanupVars, carried>>

\* f"{thread.name}|{thread.url}|{thread.word_count}\n"
OutputLine(thread) ==
    thread.name \o <<"|">> \o thread.url \o <<"|">> \o thread.word_count \o <<"\n">>

\* a run that writes only the threads whose word count was retrieved
WriteOutput_OnlyRetrieved ==
    /\ \/ pc = "retrieve" /\ i = Len(threads)
       \/ pc = "failed"
    /\ output' = LET kept == SelectSeq(threads,
                                LAMBDA t : t.word_count # DefaultWordCount)
                 IN  [k \in 1 .. Len(kept) |-> OutputLine(kept[k])]
    /\ pc' = "done"
    /\ UNCHANGED <<site, run, links, threads, enumerated, i, estimatorVars,
                   historyVars, escaped, extractVars,
                   cleanupVars, carried>>

\* the run writes one line per thread
WriteOutput ==
    /\ \/ pc = "retrieve" /\ i = Len(threads)
       \/ pc = "failed"
    /\ output' = [k \in 1 .. Len(threads) |-> OutputLine(threads[k])]
    /\ pc' = "done"
    /\ UNCHANGED <<site, run, links, threads, enumerated, i, estimatorVars,
                   historyVars, escaped, extractVars,
                   cleanupVars, carried>>

Next ==
    \/ ParseFirstPage
    \/ ParseSecondPage
    \/ Respond404
    \/ Respond429
    \/ RespondPage
    \/ TopLevelFailure
    \/ WriteOutput

Spec == Init /\ [][Next]_vars

(***************************************************************************)
(* The crawl with its progress: the loop is sequential and every request  *)
(* is answered, so a step that can be taken is taken.  The 429 responses  *)
(* of a crawl are at most MaxThrottles, so rate limiting always clears.    *)
(***************************************************************************)
SpecLive == Init /\ [][Next]_vars /\ WF_vars(Next)

(***************************************************************************)
(* The crawl together with the extraction on arbitrary page texts: a      *)
(* behaviour is either one get_word_count_text call or one crawl.          *)
(***************************************************************************)
NotFoundInit == ExtractInit \/ Init

NotFoundNext ==
    \/ ExtractWordCount
    \/ Next

SpecNotFound == NotFoundInit /\ [][NotFoundNext]_vars

(***************************************************************************)
(* The companion filter's run: main on an arbitrary input file, output    *)
(* path and force flag.                                                    *)
(***************************************************************************)
CleanupInit ==
    /\ pc = "cleanup"
    /\ site = "SV"
    /\ run = "B"
    /\ Fresh_Scraper
    /\ force \in BOOLEAN
    /\ input_file \in
          {MissingPath, DirectoryPath}
              \cup { FileOf(ls) : ls \in SeqsUpTo(CleanupLines, MaxLines) }
    /\ output_file \in {MissingPath, DirectoryPath, OldOutput}
    /\ output_before = output_file
    /\ ran = FALSE
    /\ wrote = FALSE

\* main: verify_input_args, then cleanup_output; open(output_file, "w") of
\* a directory raises before anything is written
CleanupMain ==
    /\ pc = "cleanup"
    /\ pc' = "cleaned"
    /\ IF ~ verify_input_args(input_file.kind, output_file.kind, force)
       THEN UNCHANGED <<output_file, ran, wrote>>
       ELSE /\ ran' = TRUE
            /\ IF output_file.kind = "dir"
               THEN UNCHANGED <<output_file, wrote>>
               ELSE /\ output_file' = FileOf(cleanup_output(input_file.lines))
                    /\ wrote' = TRUE
    /\ UNCHANGED <<site, run, links, threads, enumerated, i, estimatorVars,
                   historyVars, output, escaped, extractVars, force,
                   input_file, output_before, carried>>

SpecCleanup == CleanupInit /\ [][CleanupMain]_vars

(***************************************************************************)
(* Every way a Thread comes to hold its data: a behaviour is one          *)
(* parse_index_page call on an arbitrary index page, one                   *)
(* get_word_count_text call on an arbitrary page text, or one crawl.       *)
(***************************************************************************)
DataInit == IndexInit \/ ExtractInit \/ Init

DataNext ==
    \/ EnumerateIndex
    \/ ExtractWordCount
    \/ Next

SpecData == DataInit /\ [][DataNext]_vars

(***************************************************************************)
(* Claims about the enumeration (SpecIndex).                               *)
(***************************************************************************)
\* positions of the anchors whose text is t, and whose text is t once '|'
\* is removed
TextAt(t) == {k \in 1 .. Len(links) : links[k].text = t}

StrippedTextAt(t) == {k \in 1 .. Len(links) : RemoveChar(links[k].text, "|") = t}

UsefulAt(k) == is_link_useful(links[k].href, RemoveChar(links[k].text, "|"))

\* the positions the loop collected on the page in links
CollectedPositions == ParseLoop(links, 1, FALSE, <<>>, StartName, EndName)

\* the elements of a set of positions in increasing order
InOrder(S) ==
    [j \in 1 .. Cardinality(S) |->
        CHOOSE k \in S : Cardinality({m \in S : m <= k}) = j]

\* the threads of the useful anchors strictly after position s, up to and
\* including position e, in document order
ThreadsBetween(s, e) ==
    LET at == InOrder({k \in (s + 1) .. e : UsefulAt(k)})
    IN  [j \in 1 .. Len(at) |-> Thread(RemoveChar(links[at[j]].text, "|"),
                                       links[at[j]].href)]

\* the precondition of C1: each marker text on exactly one anchor, start
\* before end, the end anchor useful (the marker names hold no '|')
MarkersWellPlaced ==
    /\ Cardinality(TextAt(StartName)) = 1
    /\ Cardinality(TextAt(EndName)) = 1
    /\ Min(TextAt(StartName)) < Min(TextAt(EndName))
    /\ UsefulAt(Min(TextAt(EndName)))

ScenarioThreads ==
    << Thread(<<"K", "e", "e", "p">>, <<"h", "t", "t", "p", ":", "/", "/", "b">>),
       Thread(EndName, <<"h", "t", "t", "p", ":", "/", "/", "c">>) >>

\* C1 as stated: with the markers well placed, the threads returned are
\* exactly the useful anchors after the start anchor up to and including the
\* end anchor, in document order, with word_count "-1".
C1_EnumerationExact_AsStated ==
    (pc = "enumerated" /\ MarkersWellPlaced)
        => threads = ThreadsBetween(Min(TextAt(StartName)), Min(TextAt(EndName)))

\* C1 (amended): with the markers well placed and the end-marker name being
\* the '|'-stripped text of exactly one anchor, the threads returned are
\* exactly the useful anchors after the start anchor up to and including the
\* end anchor, in document order, each Thread(text without '|', href, "-1");
\* and the scenario page yields exactly [Keep, End].
C1_EnumerationExact ==
    /\ (pc = "enumerated" /\ MarkersWellPlaced
            /\ Cardinality(StrippedTextAt(EndName)) = 1)
          => threads = ThreadsBetween(Min(TextAt(StartName)), Min(TextAt(EndName)))
    /\ (pc = "enumerated" /\ links = ScenarioAnchors) => threads = ScenarioThreads

\* C1 witness: an enumerated page with well-placed markers where a useless
\* anchor between the markers was skipped and an anchor after the end marker
\* was left out
C1_Witness ==
    /\ pc = "enumerated"
    /\ MarkersWellPlaced
    /\ Cardinality(StrippedTextAt(EndName)) = 1
    /\ Len(threads) >= 1
    /\ \/ \E k \in 1 .. Len(links) :
             /\ Min(TextAt(StartName)) < k /\ k < Min(TextAt(EndName))
             /\ ~ UsefulAt(k)
       \/ \E k \in 1 .. Len(links) : k > Min(TextAt(EndName)) /\ UsefulAt(k)

\* C5: once enumeration is active, no anchor positioned after the first
\* anchor whose text equals the end-marker name is collected, whether or not
\* that anchor passes the usefulness filter.
C5_StopsAtEndMarker ==
    pc = "enumerated" =>
        /\ threads = [j \in 1 .. Len(CollectedPositions) |->
                         ThreadOfAnchor(links, CollectedPositions[j])]
        /\ \A s \in TextAt(StartName) : \A e \in TextAt(EndName) :
              (s = Min(TextAt(StartName)) /\ e > s
                 /\ \A m \in TextAt(EndName) : m > s => e <= m)
              => \A j \in 1 .. Len(CollectedPositions) : CollectedPositions[j] <= e

(***************************************************************************)
(* Claims about the crawl (Spec).                                          *)
(***************************************************************************)
\* soup.get_text().replace("\n", "") of a served page
FlatText(content) == RemoveChar(content, "\n")

Raised(k) == outcome[k] \notin {"pending", "returned"}

\* C2: a thread whose fetch raised keeps word_count "-1", a thread whose
\* fetch returned has the text extracted from its own statistics page, and
\* when the loop has run to its end every thread was fetched, the ones after
\* a failing thread included.
C2_FailureIsolation ==
    /\ \A k \in 1 .. Len(outcome) :
          /\ Raised(k) => threads[k].word_count = DefaultWordCount
          /\ outcome[k] = "returned" =>
                threads[k].word_count =
                    get_word_count_text(site, FlatText(served[k]))
    /\ (pc = "done" /\ ~ escaped) =>
          \A k \in 1 .. Len(threads) : outcome[k] # "pending"

\* C2 witness: a finished run in which a thread answered 404 is followed by
\* a thread whose word count was extracted
C2_Witness ==
    /\ pc = "done"
    /\ ~ escaped
    /\ \E j, k \in 1 .. Len(threads) :
          /\ j < k
          /\ outcome[j] = "Exception404"
          /\ outcome[k] = "returned"
          /\ threads[k].word_count \notin
                {DefaultWordCount, PROBLEM_WORD_COUNT_NOT_FOUND}

\* C3: 429 responses are never surfaced as a failure: no thread's fetch ends
\* with an exception raised while a 429 is handled, so a 429 alone never
\* leaves a word_count at "-1".
C3_ThrottlingNeverSurfaces ==
    \A k \in 1 .. Len(outcome) : outcome[k] # "ZeroDivisionError"

\* C4: for every thread that was enumerated and then fetched, whether the
\* fetch returned or raised, the name written holds neither a line break nor
\* the delimiter, and the word_count holds no line break.
C4_OutputFormatSafe ==
    pc = "done" =>
        \A k \in 1 .. Len(threads) :
            outcome[k] # "pending" =>
                /\ output[k] = OutputLine(threads[k])
                /\ ~ Contains(threads[k].name, <<"\n">>)
                /\ ~ Contains(threads[k].name, <<"|">>)
                /\ ~ Contains(threads[k].word_count, <<"\n">>)

C10_NothingDiscarded ==
    /\ pc \in {"retrieve", "failed", "done"} =>
          /\ Len(threads) = Len(enumerated)
          /\ \A k \in 1 .. Len(threads) :
                /\ threads[k].url = enumerated[k].url
                /\ threads[k].name \in
                      {enumerated[k].name, RemoveChar(enumerated[k].name, "\n")}
                /\ assigned[k] <= 1
                /\ assigned[k] = 0 => threads[k].word_count = DefaultWordCount
    /\ pc = "done" =>
          /\ Len(output) = Len(enumerated)
          /\ \A k \in 1 .. Len(output) :
                output[k] = threads[k].name \o <<"|">> \o enumerated[k].url
                               \o <<"|">> \o threads[k].word_count \o <<"\n">>

\* C10 witness: a run stopped by an escaping exception after a thread's
\* fetch had raised wrote that thread and the one never fetched
C10_Witness ==
    /\ pc = "done"
    /\ escaped
    /\ Len(output) = 2
    /\ \E j, k \in 1 .. Len(threads) :
          /\ Raised(j)
          /\ outcome[k] = "pending"

(***************************************************************************)
(* Claims about the extraction (SpecExtract).                              *)
(***************************************************************************)
\* where the first start marker ends, -1 without one
TokenStart ==
    LET start == Find(threadmark_text, StatisticsParen, 0)
    IN  IF start = -1 THEN -1 ELSE start + Len(StatisticsParen)

\* where the next end marker after it starts, -1 without one
TokenEnd ==
    IF TokenStart = -1 THEN -1 ELSE Find(threadmark_text, Words, TokenStart)

Token == Slice(threadmark_text, TokenStart, TokenEnd)

\* C6 as stated: the result is the text between the markers trimmed of its
\* leading and trailing whitespace, the sentinel when that is empty or when
\* a marker is absent.
C6_MarkerBounded_AsStated ==
    (pc = "extracted" /\ site = "SV") =>
        wc_text = IF TokenStart = -1 \/ TokenEnd = -1
                  THEN PROBLEM_WORD_COUNT_NOT_FOUND
                  ELSE IF Strip(Token) = <<>> THEN PROBLEM_WORD_COUNT_NOT_FOUND
                  ELSE Strip(Token)

\* C6 (amended): the result is the text between the end of the first start
\* marker and the next end marker exactly as it stands, whitespace included;
\* the sentinel when that text is empty or when a marker is absent.
C6_MarkerBounded ==
    (pc = "extracted" /\ site = "SV") =>
        wc_text = IF TokenStart = -1 \/ TokenEnd = -1
                  THEN PROBLEM_WORD_COUNT_NOT_FOUND
                  ELSE IF Token = <<>> THEN PROBLEM_WORD_COUNT_NOT_FOUND
                  ELSE Token

\* C6 witness: a token with whitespace around it was extracted untrimmed
C6_Witness ==
    /\ pc = "extracted"
    /\ site = "SV"
    /\ TokenStart # -1
    /\ TokenEnd # -1
    /\ wc_text = Token
    /\ Strip(Token) # <<>>
    /\ Strip(Token) # Token

\* C7: the pattern-bounded extraction of the example text returns
\* "7 threadmarks, 4.9k".
C7_QQExample ==
    (pc = "extracted" /\ site = "QQ" /\ threadmark_text = QQExampleText) =>
        wc_text = <<"7", " ", "t", "h", "r", "e", "a", "d", "m", "a", "r", "k", "s",
                    ",", " ", "4", ".", "9", "k">>

(***************************************************************************)
(* Claims about the estimator (SpecRate).                                  *)
(***************************************************************************)
\* C9: on every throttle after the first the rate reported is
\* (r1 - r0) / (t1 - t0) over the window's earliest and latest samples, the
\* ETA is (p_max - p_cur) / rate, truncated and printed as zero-padded
\* HH:MM:SS with 0 <= m, s < 60; samples (0, 1) and (10, 6) with 10 requests
\* left give 0.5 req/s and "00:00:20".
C9_RateAndEta ==
    (pc = "estimator" /\ throttles >= 2) =>
        LET first == rate_calc[1]
            last  == rate_calc[Len(rate_calc)]
            d_req == last.requests - first.requests
            d_t   == last.time - first.time
        IN  /\ report.printed
            /\ d_t # 0
            /\ d_req # 0
            /\ report.rate_num * d_t = report.rate_den * d_req
            /\ report.eta =
                  TruncDiv((progress.p_max - progress.p_cur) * d_t, d_req)
            /\ \E h \in 0 .. (report.eta \div 3600) :
                  \E m \in 0 .. 59 : \E sec \in 0 .. 59 :
                     /\ h * 3600 + m * 60 + sec = report.eta
                     /\ report.text = Format02d(h) \o <<":">> \o Format02d(m)
                                         \o <<":">> \o Format02d(sec)
            /\ ( /\ rate_calc = <<RateLimitPoint(0, 1), RateLimitPoint(10, 6)>>
                 /\ progress.p_max - progress.p_cur = 10 )
               => /\ 2 * report.rate_num = report.rate_den
                  /\ report.eta = 20
                  /\ report.text = <<"0", "0", ":", "0", "0", ":", "2", "0">>


OfTheForm(line) ==
    \E k \in 1 .. Len(line) :
        /\ ~ Contains(SubSeq(line, 1, k), <<"\n">>)
        /\ \E scheme \in { <<"|">> \o Http \o ColonSlashes,
                           <<"|">> \o Http \o <<"s">> \o ColonSlashes } :
              /\ StartsWith(SubSeq(line, k + 1, Len(line)), scheme)
              /\ k + Len(scheme) < Len(line)
              /\ line[k + Len(scheme) + 1] # "\n"

\* C12: what is written is, in input order, every input line of the form
\* non-empty field, '|', http(s) URL; no blank line is written and no line
\* that contains "into some problems".
C12_CleanupKeepsAndDrops ==
    (pc = "cleaned" /\ wrote) =>
        LET form == SelectSeq(input_file.lines, OfTheForm)
            out  == output_file.lines
        IN  /\ out = [k \in 1 .. Len(form) |-> Strip(form[k]) \o <<"\n">>]
            /\ \A k \in 1 .. Len(out) :
                  /\ Strip(out[k]) # <<>>
                  /\ ~ Contains(out[k], ProblemsPhrase)


(***************************************************************************)
(* Claims about the fetch and the estimator inside the crawl (Spec).       *)
(***************************************************************************)
\* a step that served a 429
Step429 == throttles' = throttles + 1

\* a step that ended the fetch of thread i + 1
StepFetched == i' = i + 1 /\ throttles' = throttles

\* C13: a 429 response reaches no extraction and leads to a retry of the
\* same request (the loop index, the threads and their outcomes stay as they
\* are); a 404 response raises Exception404 and nothing is extracted; for
\* another status a page whose flattened text holds the error marker raises
\* the generic failure carrying the status code, with or without the
\* word-count markers, and only otherwise the site's extraction is returned.
C13_StatusDispatch ==
    [][ /\ Step429 =>
              /\ i' = i
              /\ outcome' = outcome
              /\ threads' = threads
              /\ served' = served
        /\ StepFetched =>
              IF served'[i + 1] = None
              THEN /\ outcome'[i + 1] = "Exception404"
                   /\ last_error' = [type |-> "Exception404", code |-> 404]
                   /\ threads' = threads
              ELSE IF Contains(FlatText(served'[i + 1]), error_text(site))
              THEN /\ outcome'[i + 1] = "Exception"
                   /\ last_error'.type = "Exception"
                   /\ last_error'.code \in OtherStatuses
                   /\ threads' = threads
              ELSE /\ outcome'[i + 1] = "returned"
                   /\ threads'[i + 1].word_count =
                         get_word_count_text(site, FlatText(served'[i + 1]))
      ]_vars


\* the last n elements of a sequence
LastOf(seq, n) == SubSeq(seq, Len(seq) - n + 1, Len(seq))

\* C14 (SpecRate): after any sequence of hit_rate_limit calls the window
\* holds at most 5 samples, they are the most recently recorded ones in the
\* order they were recorded, and their timestamps do not decrease.
C14_SlidingWindow ==
    /\ Len(rate_calc) <= 5
    /\ rate_calc = LastOf(recorded, Min({5, Len(recorded)}))
    /\ \A j, k \in 1 .. Len(rate_calc) :
          j < k => rate_calc[j].time <= rate_calc[k].time

\* C14 witness: six samples were recorded at growing times and the oldest
\* was evicted
C14_Witness ==
    /\ pc = "estimator"
    /\ Len(recorded) = 6
    /\ Len(rate_calc) = 5
    /\ rate_calc[1] = recorded[2]
    /\ recorded[1].time < recorded[2].time
    /\ rate_calc[5] = recorded[6]

\* what holds of the flag and the window in every state
FlagAndWindow ==
    /\ rate_limited <=> rate_calc # <<>>
    /\ rate_limited <=> throttles >= 1
    /\ throttles = 1 =>
          /\ rate_calc = <<RateLimitPoint(recorded[1].time, progress.p_cur)>>
          /\ rate_calc = recorded
          /\ ~ report.printed

\* what holds of every step once the flag is set
FlagAndWindowKept ==
    rate_limited =>
        /\ rate_limited'
        /\ IF throttles' = throttles
           THEN rate_calc' = rate_calc
           ELSE /\ rate_calc' # <<>>
                /\ SubSeq(rate_calc', 1, Len(rate_calc') - 1)
                      \in {rate_calc, Tail(rate_calc)}

\* C15 (Spec): the first hit_rate_limit call of a run sets rate_limited,
\* makes the window the one sample (time, index) of that call and reports
\* nothing; once set the flag stays set, also after later requests succeed,
\* and the window is never reset: a later throttle adds its sample to the
\* retained ones; the window is non-empty exactly when the flag is set.
C15_ThrottledFlag == [] FlagAndWindow /\ [][FlagAndWindowKept]_vars

\* C15 witness: thread 1 was throttled and then retrieved, and the throttle
\* of thread 2 was measured against the sample of thread 1
C15_Witness ==
    /\ pc = "retrieve"
    /\ rate_limited
    /\ outcome[1] = "returned"
    /\ Len(rate_calc) = 2
    /\ rate_calc[1].requests = 1
    /\ rate_calc[2].requests = 2
    /\ report.printed


\* C16 (SpecLive): when rate limiting clears for every thread the run comes
\* to its end, and unless an exception escaped every thread was attempted;
\* while the request of a thread is answered 429 the fetch of that thread
\* goes on (its outcome stays open) and no later thread is attempted.
C16_Termination ==
    /\ <>( /\ pc = "done"
           /\ ~ escaped => \A k \in 1 .. Len(outcome) : outcome[k] # "pending" )
    /\ [][ Step429 => /\ i' = i
                      /\ outcome'[i + 1] = "pending" ]_vars


PathOf(url) ==
    LET scheme == Find(url, <<":", "/", "/">>, 0)
        slash  == IF scheme = -1 THEN -1 ELSE Find(url, <<"/">>, scheme + 3)
    IN  IF scheme = -1 THEN url
        ELSE IF slash = -1 THEN <<>>
        ELSE Slice(url, slash, Len(url))

\* C18: no Thread collected by parse_index_page has a url that points at an
\* ignore-listed page, be the href the ignore-listed path itself or an
\* absolute http(s) URL with that path.
C18_IgnoreListRejects ==
    pc = "enumerated" =>
        \A k \in 1 .. Len(threads) :
            PathOf(Strip(threads[k].url)) \notin urls_to_ignore


(***************************************************************************)
(* Claims about the Thread records (SpecData).                             *)
(***************************************************************************)
\* C19: every Thread of the list, after parse_index_page and all through
\* retrieve_word_counts, has a url that is not empty and not only
\* whitespace and a name that is not empty; its word_count is "-1", the
\* sentinel, or the non-empty text extracted from its page, never None and
\* never the empty string; and no extraction returns the empty string.
C19_ThreadData ==
    /\ \A k \in 1 .. Len(threads) :
          /\ threads[k].url # None
          /\ Strip(threads[k].url) # <<>>
          /\ threads[k].name # None
          /\ threads[k].name # <<>>
          /\ threads[k].word_count # None
          /\ threads[k].word_count # <<>>
          /\ \/ threads[k].word_count = DefaultWordCount
             \/ threads[k].word_count = PROBLEM_WORD_COUNT_NOT_FOUND
             \/ /\ k <= Len(outcome)
                /\ outcome[k] = "returned"
                /\ threads[k].word_count =
                      get_word_count_text(site, FlatText(served[k]))
    /\ pc = "extracted" => wc_text # <<>> /\ wc_text # None

\* C19 witness: a written crawl with a thread whose word count was
\* extracted and one left at "-1"
C19_Witness ==
    /\ pc = "done"
    /\ \E j, k \in 1 .. Len(threads) :
          /\ outcome[j] = "returned"
          /\ threads[j].word_count \notin
                {DefaultWordCount, PROBLEM_WORD_COUNT_NOT_FOUND}
          /\ Raised(k)
          /\ threads[k].word_count = DefaultWordCount

=============================================================================
